---- MODULE Spec2Model ----
(***************************************************************************)
(* Model of indhureworkcode.py: the wide-CSV -> long -> pivot reshaping    *)
(* (data_read, subset_data, filter_Methane_emission_data) and the per-row  *)
(* exponential fit loop (predict_future, err_ranges).                      *)
(*                                                                         *)
(* A cell of a CSV file is a token: a sequence of characters.  A numeric   *)
(* value is a tuple: <<>> is NaN (missing), <<y>> an integer produced by   *)
(* pd.to_numeric, <<n, d>> the reduced fraction n/d produced by the mean   *)
(* aggregation of pivot_table.                                             *)
(***************************************************************************)
EXTENDS Integers, Sequences, FiniteSets, TLC

VARIABLES
    raw,            \* the CSV file
    pc,             \* where the run is
    read_status,    \* data_read: "none" before the call, then "ok" or the error
    df_years,       \* data_read: the years-as-columns view
    df_countries,   \* data_read: the countries-as-columns view
    request,        \* the arguments of the last subset / filter / predict call
    status,         \* that call: "ok" or the error it raised
    pivot,          \* filter: the pivot before the years are selected
    data,           \* the frame the call returned (predict_future: its data)
    row_i,          \* predict_future: the row the fit loop is at (from 1)
    growth_rate,    \* predict_future: the growth_rate array
    popts,          \* predict_future: popt[1] of each curve_fit that returned
    ci,             \* predict_future: the last value err_ranges returned
    plotted,        \* predict_future: the plot has been drawn
    returned        \* predict_future: growth_rate has been returned

vars == <<raw, pc, read_status, df_years, df_countries, request, status, pivot,
          data, row_i, growth_rate, popts, ci, plotted, returned>>

(***************************************************************************)
(* Bounds of the model and constants of the program.                       *)
(***************************************************************************)
MaxRows == 2        \* rows of the wide CSV table
Pad == 1            \* year columns of the CSV before 1990 and after 2018
FirstYear == 1990   \* range(1990, 2019): first year of subset_data
StopYear == 2019    \* range(1990, 2019): exclusive end of subset_data
NParams == 2        \* exp_growth(x, a, b): len(popt)

Countries == <<"China", "India">>        \* in sorted order
Indicators == <<"CO2", "Methane">>       \* in sorted order

NaN == <<>>

(***************************************************************************)
(* Tokens: decimal formatting (how the CSV writes a year label) and        *)
(* pd.to_numeric(..., errors='coerce').                                    *)
(***************************************************************************)
Digits == <<"0", "1", "2", "3", "4", "5", "6", "7", "8", "9">>

IsDigit(c) == \E d \in 1..10 : Digits[d] = c

DigitVal(c) == (CHOOSE d \in 1..10 : Digits[d] = c) - 1

RECURSIVE Fmt(_)
Fmt(n) == IF n < 10 THEN <<Digits[n + 1]>>
          ELSE Append(Fmt(n \div 10), Digits[(n % 10) + 1])

RECURSIVE ParseInt(_)
ParseInt(tok) ==
    IF Len(tok) = 0 THEN 0
    ELSE 10 * ParseInt(SubSeq(tok, 1, Len(tok) - 1)) + DigitVal(tok[Len(tok)])

IsNumeric(tok) == Len(tok) > 0 /\ \A k \in 1..Len(tok) : IsDigit(tok[k])

\* (variant: the default of pd.to_numeric instead of errors='coerce')
errors_raise == "raise"

\* the errors= argument the program passes to pd.to_numeric
errors == "coerce"

\* pd.to_numeric on one token: with errors='coerce' a token that is not a
\* number becomes NaN; with errors='raise' the call raises ValueError instead
to_numeric(tok) == IF IsNumeric(tok) THEN <<ParseInt(tok)>> ELSE NaN

to_numeric_raises(tok) == errors = "raise" /\ ~IsNumeric(tok)

(***************************************************************************)
(* The wide CSV tables the model reads.                                    *)
(***************************************************************************)
YearColumns == (FirstYear - Pad) .. (StopYear - 1 + Pad)

NoteLabel == <<"N", "o", "t", "e">>      \* a value column that is no year

ColLabels ==
    [k \in 1..Cardinality(YearColumns) |-> Fmt(FirstYear - Pad + k - 1)]
        \o <<NoteLabel>>

VaryLabels == {Fmt(FirstYear + 1)}       \* the column whose cell varies per row

NotANumber == <<"n", "/", "a">>
BaseTokens == {Fmt(3), NotANumber}
VaryTokens == {Fmt(5), NotANumber}

\* A row of the file is written down by its two names and two tokens: vary
\* is its cell in the columns of VaryLabels, base its cell everywhere else.
RawRows ==
    { [Country |-> c, Indicator |-> i, base |-> b, vary |-> v] :
        c \in {Countries[k] : k \in 1..Len(Countries)},
        i \in {Indicators[k] : k \in 1..Len(Indicators)},
        b \in BaseTokens, v \in VaryTokens }

\* the cell of a row in the value column at position k
Cell(row, k) == IF ColLabels[k] \in VaryLabels THEN row.vary ELSE row.base

\* The files are in the World Bank format: the three columns of cols_to_drop
\* and 'Country Name' are there, so df.drop and df.rename succeed; what is
\* left are the two id columns and the value columns, labels and rows below.
RawTables ==
    { [labels |-> ColLabels, rows |-> rs] :
        rs \in UNION { [1..n -> RawRows] : n \in 1..MaxRows } }

(***************************************************************************)
(* Helpers: ordering of keys, fractions, data frames.                      *)
(* A data frame is [index, columns, values]: index and columns are         *)
(* sequences of keys, values[i][j] is the cell of row i and column j.      *)
(***************************************************************************)
SeqToSet(s) == {s[k] : k \in 1..Len(s)}

PosIn(s, x) == CHOOSE k \in 1..Len(s) : s[k] = x

\* sort orders of the pivot axes (pivot_table sorts both): the rank of a key
\* is its position in the lexicographic order, Key* is the key of a rank
NI == Len(Indicators) + 1
RankPair(p) == PosIn(Countries, p[1]) * NI + PosIn(Indicators, p[2])
KeyPair(r) == <<Countries[r \div NI], Indicators[r % NI]>>
RankYear(y) == y
KeyYear(r) == r
RankYearInd(p) == p[1] * NI + PosIn(Indicators, p[2])
KeyYearInd(r) == <<r \div NI, Indicators[r % NI]>>
RankCountry(c) == PosIn(Countries, c)
KeyCountry(r) == Countries[r]

RECURSIVE SortInts(_)
SortInts(R) ==
    IF R = {} THEN <<>>
    ELSE LET m == CHOOSE x \in R : \A y \in R : x <= y
         IN <<m>> \o SortInts(R \ {m})

\* the keys of S in increasing order, for each kind of key
SortPairs(S) ==
    LET ranks == SortInts({RankPair(x) : x \in S})
    IN [k \in 1..Len(ranks) |-> KeyPair(ranks[k])]

SortYears(S) ==
    LET ranks == SortInts({RankYear(x) : x \in S})
    IN [k \in 1..Len(ranks) |-> KeyYear(ranks[k])]

SortYearInds(S) ==
    LET ranks == SortInts({RankYearInd(x) : x \in S})
    IN [k \in 1..Len(ranks) |-> KeyYearInd(ranks[k])]

SortCountries(S) ==
    LET ranks == SortInts({RankCountry(x) : x \in S})
    IN [k \in 1..Len(ranks) |-> KeyCountry(ranks[k])]

RECURSIVE Gcd(_, _)
Gcd(a, b) == IF b = 0 THEN a ELSE Gcd(b, a % b)

Frac(n, d) == LET g == Gcd(n, d) IN <<n \div g, d \div g>>

RECURSIVE SumValues(_)
SumValues(vs) == IF Len(vs) = 0 THEN 0 ELSE vs[1][1] + SumValues(Tail(vs))

\* mean with skipna: NaN when no value of the group is a number
Mean(vs) ==
    LET nums == SelectSeq(vs, LAMBDA v : v # NaN)
    IN IF Len(nums) = 0 THEN NaN ELSE Frac(SumValues(nums), Len(nums))

EmptyFrame == [index |-> <<>>, columns |-> <<>>, values |-> <<>>]

transpose(t) ==
    [index |-> t.columns, columns |-> t.index,
     values |-> [j \in 1..Len(t.columns) |->
                    [i \in 1..Len(t.index) |-> t.values[i][j]]]]

\* the frame restricted to the columns at the positions js (a sequence)
TakeColumns(t, js) ==
    [index |-> t.index,
     columns |-> [k \in 1..Len(js) |-> t.columns[js[k]]],
     values |-> [i \in 1..Len(t.index) |->
                    [k \in 1..Len(js) |-> t.values[i][js[k]]]]]

TakeRows(t, is) ==
    [index |-> [k \in 1..Len(is) |-> t.index[is[k]]],
     columns |-> t.columns,
     values |-> [k \in 1..Len(is) |-> t.values[is[k]]]]

Positions(n) == [k \in 1..n |-> k]

AllNaColumn(t, j) == \A i \in 1..Len(t.index) : t.values[i][j] = NaN

\* DataFrame.dropna(how='all', axis=1)
dropna_columns(t) ==
    TakeColumns(t, SelectSeq(Positions(Len(t.columns)),
                             LAMBDA j : ~AllNaColumn(t, j)))

(***************************************************************************)
(* melt, the two to_numeric coercions, pivot_table.                        *)
(***************************************************************************)
\* df.melt(id_vars=['Country', 'Indicator Name'], var_name='Year',
\*         value_name='Value'): one record per row and value column
melt(rows, labels) ==
    [k \in 1..(Len(labels) * Len(rows)) |->
        LET c == ((k - 1) \div Len(rows)) + 1
            r == ((k - 1) % Len(rows)) + 1
        IN [Country |-> rows[r].Country, Indicator |-> rows[r].Indicator,
            Year |-> labels[c], Value |-> Cell(rows[r], c)]]

coerce(long) ==
    [k \in 1..Len(long) |->
        [long[k] EXCEPT !.Year = to_numeric(@), !.Value = to_numeric(@)]]

coerce_raises(long) ==
    \E k \in 1..Len(long) :
        to_numeric_raises(long[k].Year) \/ to_numeric_raises(long[k].Value)

\* groupby(['Country', 'Indicator Name', 'Year']) followed by the 'mean'
\* aggregation, as pivot_table runs it: records with a NaN key leave the
\* groupby; the mean of a group skips NaN values.  The result maps each key
\* <<country, indicator, year>> to the mean of its group.
groupby_mean(long) ==
    LET keyed == SelectSeq(long, LAMBDA rec : rec.Year # NaN)
        years == {keyed[k].Year[1] : k \in 1..Len(keyed)}
        of_year == [y \in years |-> SelectSeq(keyed, LAMBDA rec : rec.Year[1] = y)]
        keys == UNION { { <<of_year[y][k].Country, of_year[y][k].Indicator, y>> :
                            k \in 1..Len(of_year[y]) } : y \in years }
    IN [key \in keys |->
          LET g == SelectSeq(of_year[key[3]],
                     LAMBDA rec : rec.Country = key[1] /\ rec.Indicator = key[2])
          IN Mean([k \in 1..Len(g) |-> g[k].Value])]

\* The two pivots of the program: index=['Country', 'Indicator Name'] with
\* columns='Year' ("years"), index=['Year', 'Indicator Name'] with
\* columns='Country' ("countries").  For a group key <<country, indicator,
\* year>>: its row key and column key in the pivot, and the way back.
RowKey(view, key) ==
    IF view = "years" THEN <<key[1], key[2]>> ELSE <<key[3], key[2]>>

ColKey(view, key) == IF view = "years" THEN key[3] ELSE key[1]

GroupKey(view, rowkey, colkey) ==
    IF view = "years" THEN <<rowkey[1], rowkey[2], colkey>>
    ELSE <<colkey, rowkey[2], rowkey[1]>>

SortRowKeys(view, S) == IF view = "years" THEN SortPairs(S) ELSE SortYearInds(S)

SortColKeys(view, S) == IF view = "years" THEN SortYears(S) ELSE SortCountries(S)

\* df.pivot_table(index=..., columns=..., values='Value', dropna=...) with
\* aggfunc 'mean'.  With dropna (the default, which the program uses) a group
\* whose mean is NaN is dropped before unstacking and the columns that are
\* entirely NaN are dropped at the end; both axes come out sorted.
pivot_table(long, view, dropna) ==
    LET agged == groupby_mean(long)
        keys == DOMAIN agged
        kept == IF dropna THEN {key \in keys : agged[key] # NaN} ELSE keys
        idx == SortRowKeys(view, {RowKey(view, key) : key \in kept})
        cols == SortColKeys(view, {ColKey(view, key) : key \in kept})
        table == [index |-> idx, columns |-> cols,
                  values |-> [i \in 1..Len(idx) |-> [j \in 1..Len(cols) |->
                      IF GroupKey(view, idx[i], cols[j]) \in kept
                      THEN agged[GroupKey(view, idx[i], cols[j])] ELSE NaN]]]
    IN IF dropna THEN dropna_columns(table) ELSE table

pivot_years(long) == pivot_table(long, "years", TRUE)

pivot_countries(long) == pivot_table(long, "countries", TRUE)

(***************************************************************************)
(* data_read(filename)                                                     *)
(***************************************************************************)
\* (variant: the pivot with dropna=False and no dropna afterwards)
read_years_view_keepna(long) == pivot_table(long, "years", FALSE)

read_years_view(long) == dropna_columns(pivot_years(long))
read_countries_view(long) == dropna_columns(pivot_countries(long))

data_read(csv) ==
    LET molten == melt(csv.rows, csv.labels)
        long == coerce(molten)
    IN IF coerce_raises(molten)
       THEN [status |-> "ValueError", df_years |-> EmptyFrame,
             df_countries |-> EmptyFrame]
       ELSE [status |-> "ok",
             df_years |-> read_years_view(long),
             df_countries |-> read_countries_view(long)]

(***************************************************************************)
(* subset_data(df_years, countries, indicators)                            *)
(* countries and indicators are sets: lists in sorted order, no repeats.   *)
(***************************************************************************)
\* (variant: the end of the range taken as included)
SubsetYears_inclusive == [k \in 1..(StopYear - FirstYear + 1) |-> FirstYear + k - 1]

\* years = list(range(1990, 2019))
SubsetYears == [k \in 1..(StopYear - FirstYear) |-> FirstYear + k - 1]

\* MultiIndex.get_locs((countries, indicators)): a label that no row carries
\* in its level is a KeyError, and so is a selection that matches no row; a
\* requested pair that is merely absent is not looked up on its own.
get_locs_raises(index, countries, indicators) ==
    \/ \E c \in countries : \A k \in 1..Len(index) : index[k][1] # c
    \/ \E i \in indicators : \A k \in 1..Len(index) : index[k][2] # i
    \/ \A k \in 1..Len(index) :
          ~(index[k][1] \in countries /\ index[k][2] \in indicators)

get_locs(index, countries, indicators) ==
    SelectSeq(Positions(Len(index)),
              LAMBDA k : index[k][1] \in countries /\ index[k][2] \in indicators)

\* .loc[..., years] with a list of labels: every label must be a column
columns_raise(columns, years) ==
    \E k \in 1..Len(years) : years[k] \notin SeqToSet(columns)

subset_data(view, countries, indicators) ==
    IF \/ columns_raise(view.columns, SubsetYears)
       \/ get_locs_raises(view.index, countries, indicators)
    THEN [status |-> "KeyError", data |-> EmptyFrame]
    ELSE LET rows == TakeRows(view, get_locs(view.index, countries, indicators))
             df == TakeColumns(rows,
                     [k \in 1..Len(SubsetYears) |-> PosIn(rows.columns, SubsetYears[k])])
         IN [status |-> "ok", data |-> transpose(df)]

(***************************************************************************)
(* filter_Methane_emission_data(filename, countries, indicators,           *)
(*                              start_year, end_year)                      *)
(***************************************************************************)
\* (variant: the indicator test left out)
isin_filter_country(rows, countries, indicators) ==
    SelectSeq(rows, LAMBDA r : r.Country \in countries)

\* df[df['Country'].isin(countries) & df['Indicator Name'].isin(indicators)]
isin_filter(rows, countries, indicators) ==
    SelectSeq(rows, LAMBDA r : r.Country \in countries /\ r.Indicator \in indicators)

\* (variant: the end label excluded, as a positional slice would)
loc_slice_exclusive(t, start_year, end_year) ==
    TakeColumns(t, SelectSeq(Positions(Len(t.columns)),
                     LAMBDA j : start_year <= t.columns[j] /\ t.columns[j] < end_year))

\* .loc[:, start_year:end_year] on the sorted year columns: a label slice,
\* both endpoints included
loc_slice(t, start_year, end_year) ==
    TakeColumns(t, SelectSeq(Positions(Len(t.columns)),
                     LAMBDA j : start_year <= t.columns[j] /\ t.columns[j] <= end_year))

\* (variant: a requested name that no row of the file carries is a KeyError)
filtered_pivot_strict(csv, countries, indicators) ==
    IF \/ \E c \in countries : \A k \in 1..Len(csv.rows) : csv.rows[k].Country # c
       \/ \E i \in indicators : \A k \in 1..Len(csv.rows) : csv.rows[k].Indicator # i
    THEN [status |-> "KeyError", data |-> EmptyFrame]
    ELSE LET long == coerce(melt(isin_filter(csv.rows, countries, indicators),
                                 csv.labels))
         IN [status |-> "ok", data |-> pivot_years(long)]

\* The function in its two stages.  Lines 203-230: read, drop, rename, filter
\* the rows, melt, coerce, pivot.
filtered_pivot(csv, countries, indicators) ==
    LET molten == melt(isin_filter(csv.rows, countries, indicators), csv.labels)
        long == coerce(molten)
    IN IF coerce_raises(molten)
       THEN [status |-> "ValueError", data |-> EmptyFrame]
       ELSE [status |-> "ok", data |-> pivot_years(long)]

\* Lines 232-235: select the years of the pivot and return.
select_years(pv, start_year, end_year) ==
    IF pv.status # "ok" THEN pv
    ELSE [status |-> "ok", data |-> loc_slice(pv.data, start_year, end_year)]

(***************************************************************************)
(* The calls of the reshaping functions.                                   *)
(***************************************************************************)
CountrySets == SUBSET SeqToSet(Countries) \ {{}}
IndicatorSets == SUBSET SeqToSet(Indicators) \ {{}}
SliceYears == {FirstYear, FirstYear + 1, StopYear}

NoRequest == [fn |-> "none", countries |-> {}, indicators |-> {},
              start_year |-> 0, end_year |-> 0]

NoArray == [shape |-> <<0, 0>>, rows |-> <<>>]

Init ==
    /\ raw \in RawTables
    /\ pc = "start"
    /\ read_status = "none"
    /\ df_years = EmptyFrame /\ df_countries = EmptyFrame
    /\ request = NoRequest
    /\ status = "none"
    /\ pivot = EmptyFrame
    /\ data = EmptyFrame
    /\ row_i = 0 /\ growth_rate = NoArray /\ popts = <<>> /\ ci = <<>>
    /\ plotted = FALSE /\ returned = FALSE

FitUnchanged == UNCHANGED <<row_i, growth_rate, popts, ci, plotted, returned>>

DataRead ==
    /\ pc = "start"
    /\ \E r \in {data_read(raw)} :
          /\ read_status' = r.status
          /\ df_years' = r.df_years
          /\ df_countries' = r.df_countries
    /\ pc' = "read"
    /\ UNCHANGED <<raw, request, status, pivot, data>>
    /\ FitUnchanged

SubsetData ==
    /\ pc = "read" /\ read_status = "ok"
    /\ \E cs \in CountrySets, is \in IndicatorSets :
         \E r \in {subset_data(df_years, cs, is)} :
            /\ request' = [NoRequest EXCEPT !.fn = "subset_data",
                              !.countries = cs, !.indicators = is]
            /\ status' = r.status
            /\ data' = r.data
    /\ pc' = "subset"
    /\ UNCHANGED <<raw, read_status, df_years, df_countries, pivot>>
    /\ FitUnchanged

\* filter_Methane_emission_data(raw, cs, is, s, e), called on its own
FilterData ==
    /\ pc = "read"
    /\ \E cs \in CountrySets, is \in IndicatorSets :
         \E pv \in {filtered_pivot(raw, cs, is)}, s \in SliceYears, e \in SliceYears :
            /\ s <= e
            /\ \E r \in {select_years(pv, s, e)} :
                  /\ request' = [fn |-> "filter", countries |-> cs,
                                 indicators |-> is, start_year |-> s,
                                 end_year |-> e]
                  /\ status' = r.status
                  /\ pivot' = pv.data
                  /\ data' = r.data
    /\ pc' = "filtered"
    /\ UNCHANGED <<raw, read_status, df_years, df_countries>>
    /\ FitUnchanged

Next == DataRead \/ SubsetData \/ FilterData

Spec == Init /\ [][Next]_vars

(***************************************************************************)
(* err_ranges and predict_future.                                          *)
(* A float is followed by its class only: "zero", "pos" (positive and      *)
(* finite), "inf", "nan".  The numbers curve_fit finds are not computed:   *)
(* the fitted b is any element of BValues, the sum of squared residuals is *)
(* zero or positive, the covariance finite or infinite.                    *)
(***************************************************************************)
BValues == {1, 2}

FMul(a, b) ==
    IF a = "nan" \/ b = "nan" THEN "nan"
    ELSE IF (a = "inf" /\ b = "zero") \/ (a = "zero" /\ b = "inf") THEN "nan"
    ELSE IF a = "inf" \/ b = "inf" THEN "inf"
    ELSE IF a = "zero" \/ b = "zero" THEN "zero"
    ELSE "pos"

\* a / d for a numpy float a >= 0 and an integer d >= 0: 0/0 is nan, x/0 is inf
FDivInt(a, d) ==
    IF d > 0 THEN a
    ELSE IF a = "zero" THEN "nan"
    ELSE IF a = "pos" THEN "inf"
    ELSE a

\* np.sqrt of a float >= 0 stays in its class
FSqrt(a) == a

\* -1 * stats.t.ppf(alpha / 2, df): nan when df is not positive
tval_of(df) == IF df > 0 THEN "pos" ELSE "nan"

degrees_of_freedom(n, m) == IF n - m > 0 THEN n - m ELSE 0

\* err_ranges(xdata, ydata, popt, pcov): n = len(ydata), m = len(popt),
\* ssr = np.sum(residuals**2), pcov_diag = np.diag(pcov)
err_ranges(n, m, ssr, pcov_diag) ==
    LET df == degrees_of_freedom(n, m)
        tval == tval_of(df)
        stdev == FSqrt(FDivInt(ssr, df))
    IN [k \in 1..m |-> FMul(FMul(tval, stdev), FSqrt(pcov_diag[k]))]

\* curve_fit(exp_growth, np.arange(n), ydata): what the call can end in.
\* NaN in ydata or no data is a ValueError, fewer data points than parameters
\* a TypeError, no convergence a RuntimeError; with as many data points as
\* parameters the covariance is filled with inf.
curve_fit_outcomes(ydata) ==
    IF \E k \in 1..Len(ydata) : ydata[k] = NaN
    THEN {[status |-> "ValueError", b |-> 0, pcov |-> "nan"]}
    ELSE IF Len(ydata) = 0
    THEN {[status |-> "ValueError", b |-> 0, pcov |-> "nan"]}
    ELSE IF Len(ydata) < NParams
    THEN {[status |-> "TypeError", b |-> 0, pcov |-> "nan"]}
    ELSE {[status |-> "RuntimeError", b |-> 0, pcov |-> "nan"]}
         \cup {[status |-> "ok", b |-> b, pcov |-> c] :
                 b \in BValues,
                 c \in IF Len(ydata) > NParams THEN {"pos", "inf"} ELSE {"inf"}}

\* np.zeros(data.shape)
zeros(t) ==
    [shape |-> <<Len(t.index), Len(t.columns)>>,
     rows |-> [i \in 1..Len(t.index) |-> [j \in 1..Len(t.columns) |-> 0]]]

\* (variant: the row index left at the first row)
set_row_first(arr, i, b) ==
    [arr EXCEPT !.rows[1] = [j \in 1..arr.shape[2] |-> b]]

\* growth_rate[i] = popt[1] on a two-dimensional array: the whole row i
set_row(arr, i, b) ==
    [arr EXCEPT !.rows[i] = [j \in 1..arr.shape[2] |-> b]]

\* (variant: the failure of a row caught and the loop continued)
after_fit_error_continue(i) == [pc |-> "fit", row_i |-> i + 1]

\* an exception of curve_fit in the loop at row i: nothing catches it
after_fit_error(i) == [pc |-> "raised", row_i |-> i]

FitSlices == {<<FirstYear, e>> : e \in SliceYears}
FitCountrySets == {SeqToSet(Countries), {Countries[Len(Countries)]}}
FitIndicatorSets == {SeqToSet(Indicators)}

InitFit ==
    /\ raw \in RawTables
    /\ pc = "predict"
    /\ read_status = "none"
    /\ df_years = EmptyFrame /\ df_countries = EmptyFrame
    /\ request = NoRequest
    /\ status = "none"
    /\ pivot = EmptyFrame
    /\ data = EmptyFrame
    /\ row_i = 0 /\ growth_rate = NoArray /\ popts = <<>> /\ ci = <<>>
    /\ plotted = FALSE /\ returned = FALSE

ReadUnchanged == UNCHANGED <<raw, read_status, df_years, df_countries>>

\* predict_future, lines 254-258: the filter call and np.zeros
PredictFilter ==
    /\ pc = "predict"
    /\ \E cs \in FitCountrySets, is \in FitIndicatorSets, se \in FitSlices :
         \E r \in {select_years(filtered_pivot(raw, cs, is), se[1], se[2])} :
            /\ request' = [fn |-> "predict_future", countries |-> cs,
                           indicators |-> is, start_year |-> se[1],
                           end_year |-> se[2]]
            /\ status' = r.status
            /\ data' = r.data
            /\ IF r.status = "ok"
               THEN /\ growth_rate' = zeros(r.data)
                    /\ row_i' = 1
                    /\ pc' = "fit"
               ELSE /\ growth_rate' = growth_rate
                    /\ row_i' = row_i
                    /\ pc' = "raised"
    /\ UNCHANGED <<pivot, popts, ci, plotted, returned>>
    /\ ReadUnchanged

\* predict_future, lines 259-263: one turn of the fit loop
FitRow ==
    /\ pc = "fit" /\ row_i <= Len(data.index)
    /\ \E o \in curve_fit_outcomes(data.values[row_i]) :
         IF o.status = "ok"
         THEN /\ \E ssr \in {"zero", "pos"} :
                    ci' = err_ranges(Len(data.values[row_i]), NParams, ssr,
                                     [k \in 1..NParams |-> o.pcov])
              /\ growth_rate' = set_row(growth_rate, row_i, o.b)
              /\ popts' = Append(popts, [row |-> data.index[row_i], b |-> o.b])
              /\ row_i' = row_i + 1
              /\ UNCHANGED <<pc, status>>
         ELSE /\ status' = o.status
              /\ pc' = after_fit_error(row_i).pc
              /\ row_i' = after_fit_error(row_i).row_i
              /\ UNCHANGED <<growth_rate, popts, ci>>
    /\ UNCHANGED <<request, pivot, data, plotted, returned>>
    /\ ReadUnchanged

\* predict_future, lines 265-274: the plot, after the last row
PlotSeries ==
    /\ pc = "fit" /\ row_i > Len(data.index)
    /\ plotted' = TRUE
    /\ pc' = "plotted"
    /\ UNCHANGED <<request, status, pivot, data, row_i, growth_rate, popts, ci,
                   returned>>
    /\ ReadUnchanged

\* predict_future, line 276: return growth_rate
ReturnRates ==
    /\ pc = "plotted"
    /\ returned' = TRUE
    /\ pc' = "done"
    /\ UNCHANGED <<request, status, pivot, data, row_i, growth_rate, popts, ci,
                   plotted>>
    /\ ReadUnchanged

NextFit == PredictFilter \/ FitRow \/ PlotSeries \/ ReturnRates

SpecFit == InitFit /\ [][NextFit]_vars

(***************************************************************************)
(* Properties of the reshaping functions (checked under Spec).             *)
(***************************************************************************)
Requested == request.countries \X request.indicators

RowPair(row) == <<row.Country, row.Indicator>>

\* the row of the file has a number in at least one year column
HasData(row) == \E k \in 1..Len(raw.labels) :
                    IsNumeric(raw.labels[k]) /\ IsNumeric(Cell(row, k))

\* the cell of a frame by its keys, NaN where the frame has no such cell
CellAt(t, rowkey, colkey) ==
    IF rowkey \in SeqToSet(t.index) /\ colkey \in SeqToSet(t.columns)
    THEN t.values[PosIn(t.index, rowkey)][PosIn(t.columns, colkey)]
    ELSE NaN

\* C1: after data_read, neither the years-as-columns view nor the
\* countries-as-columns view has a column whose cells are missing in every row.
C1_NoFullyMissingColumn ==
    (pc = "read" /\ read_status = "ok") =>
        /\ \A j \in 1..Len(df_years.columns) : ~AllNaColumn(df_years, j)
        /\ \A j \in 1..Len(df_countries.columns) : ~AllNaColumn(df_countries, j)

\* the file has a year column with no number in any row, and data_read ran
C1_Witness ==
    /\ pc = "read" /\ read_status = "ok"
    /\ \A r \in 1..Len(raw.rows) : ~IsNumeric(raw.rows[r].vary)
    /\ \E r \in 1..Len(raw.rows) : IsNumeric(raw.rows[r].base)
    /\ (FirstYear + 1) \notin SeqToSet(df_years.columns)
    /\ FirstYear \in SeqToSet(df_years.columns)
    /\ Len(df_countries.columns) >= 1

\* C2 (as claimed): subset_data ends in a KeyError whenever some requested
\* (country, indicator) pair is not in the row index of the years view.
C2_SubsetFailsOnAbsentPair ==
    (pc = "subset" /\ \E p \in Requested : p \notin SeqToSet(df_years.index))
        => status = "KeyError"

AllRequestedPresent == Requested \subseteq SeqToSet(df_years.index)

C4_ReadCoercesMalformed ==
    pc = "read" =>
        /\ read_status = "ok"
        /\ SeqToSet(df_years.columns) \subseteq
              {to_numeric(raw.labels[k])[1] :
                  k \in {n \in 1..Len(raw.labels) : IsNumeric(raw.labels[n])}}
        /\ \A k \in 1..Len(raw.labels), r \in 1..Len(raw.rows) :
              IsNumeric(raw.labels[k]) =>
                 ( CellAt(df_years, RowPair(raw.rows[r]),
                          to_numeric(raw.labels[k])[1]) # NaN
                   <=> \E q \in 1..Len(raw.rows) :
                          /\ RowPair(raw.rows[q]) = RowPair(raw.rows[r])
                          /\ IsNumeric(Cell(raw.rows[q], k)) )

\* the file has a label and a cell that are no numbers, and data_read ran
C4_Witness ==
    /\ pc = "read" /\ read_status = "ok"
    /\ \E k \in 1..Len(raw.labels) : ~IsNumeric(raw.labels[k])
    /\ \E r \in 1..Len(raw.rows) :
          ~IsNumeric(raw.rows[r].vary) /\ IsNumeric(raw.rows[r].base)
    /\ Len(df_years.index) >= 1 /\ Len(df_countries.index) >= 1

\* C5: the frame filter_Methane_emission_data returns has only rows of the
\* requested countries and indicators, and its columns are exactly the year
\* labels y of the pivot with start_year <= y <= end_year.
C5_FilterRowsAndYears ==
    (pc = "filtered" /\ status = "ok") =>
        /\ \A k \in 1..Len(data.index) :
              /\ data.index[k][1] \in request.countries
              /\ data.index[k][2] \in request.indicators
        /\ SeqToSet(data.columns) =
              {y \in SeqToSet(pivot.columns) :
                  request.start_year <= y /\ y <= request.end_year}
        /\ Len(data.columns) = Cardinality(SeqToSet(data.columns))

\* the filter left out a row of the file and columns of the pivot, and kept
\* both end years
C5_Witness ==
    /\ pc = "filtered" /\ status = "ok"
    /\ request.start_year < request.end_year
    /\ request.start_year \in SeqToSet(data.columns)
    /\ request.end_year \in SeqToSet(data.columns)
    /\ Len(data.columns) < Len(pivot.columns)
    /\ Len(data.index) >= 1
    /\ \E r \in 1..Len(raw.rows) : RowPair(raw.rows[r]) \notin Requested

AbsentFromFile ==
    \/ \E c \in request.countries :
          \A r \in 1..Len(raw.rows) : raw.rows[r].Country # c
    \/ \E i \in request.indicators :
          \A r \in 1..Len(raw.rows) : raw.rows[r].Indicator # i

\* C6 (as claimed): when a requested country or indicator is absent from the
\* file, the filter ends in a KeyError.
C6_FilterFailsOnAbsent ==
    (pc = "filtered" /\ AbsentFromFile) => status = "KeyError"

\* C6 (amended): the filter raises no lookup error, also when a requested
\* country or indicator is absent from the file: it returns the rows of the
\* requested pairs that the file has data for, and no others.
C6_FilterOmitsAbsent ==
    pc = "filtered" =>
        /\ status = "ok"
        /\ SeqToSet(data.index) =
              {p \in Requested : \E r \in 1..Len(raw.rows) :
                  RowPair(raw.rows[r]) = p /\ HasData(raw.rows[r])}

\* a requested name is absent and the filter returned fewer rows than requested
C6_Witness ==
    /\ pc = "filtered" /\ status = "ok" /\ AbsentFromFile
    /\ Len(data.index) >= 1
    /\ Len(data.index) < Cardinality(Requested)

\* the years view of data_read, restricted to the request of the filter
ReadRestricted ==
    loc_slice(TakeRows(df_years,
                       get_locs(df_years.index, request.countries,
                                request.indicators)),
              request.start_year, request.end_year)

\* C10 (as claimed): the frame of the filter equals the years view of
\* data_read restricted to the requested rows and years.
C10_FilterEqualsReadRestricted ==
    (pc = "filtered" /\ status = "ok" /\ read_status = "ok") =>
        data = ReadRestricted

\* C10 (amended): the frame of the filter equals the years view of data_read
\* restricted to the requested rows and years, once the columns that are
\* missing in every selected row are dropped from it.
C10_FilterEqualsReadRestrictedDropped ==
    (pc = "filtered" /\ status = "ok" /\ read_status = "ok") =>
        data = dropna_columns(ReadRestricted)

\* the filter returned rows and columns, fewer columns than the restricted view
C10_Witness ==
    /\ pc = "filtered" /\ status = "ok" /\ read_status = "ok"
    /\ Len(data.index) >= 1 /\ Len(data.columns) >= 1
    /\ Len(data.columns) < Len(ReadRestricted.columns)

(***************************************************************************)
(* Properties of predict_future and err_ranges (checked under SpecFit).    *)
(***************************************************************************)
\* C7 (as claimed): with zero degrees of freedom, max(0, n - m) = 0, the
\* half-widths err_ranges returns are infinite: it returns no NaN.
C7_DegenerateFitFlagged ==
    (ci # <<>> /\ degrees_of_freedom(Len(data.columns), NParams) = 0) =>
        \A k \in 1..Len(ci) : ci[k] = "inf"

\* C8 (as claimed): predict_future returns an array with exactly one entry
\* per row of the filtered slice, of shape (rows,).
C8_OneEntryPerRow ==
    pc = "done" => growth_rate.shape = <<Len(data.index)>>

\* C8 (amended): predict_future returns a two-dimensional array of the shape
\* of the filtered slice, one row per row of the slice in the order of the
\* slice and one column per year column, and every entry of row i is the b
\* parameter fitted on row i.
C8_RowsHoldFittedB ==
    pc = "done" =>
        /\ returned
        /\ growth_rate.shape = <<Len(data.index), Len(data.columns)>>
        /\ Len(growth_rate.rows) = Len(data.index)
        /\ Len(popts) = Len(data.index)
        /\ \A i \in 1..Len(data.index) :
              /\ popts[i].row = data.index[i]
              /\ Len(growth_rate.rows[i]) = Len(data.columns)
              /\ \A j \in 1..Len(data.columns) :
                    growth_rate.rows[i][j] = popts[i].b

\* predict_future returned, two rows were fitted with different b
C8_Witness ==
    /\ pc = "done" /\ returned
    /\ Len(data.index) >= 2 /\ Len(data.columns) > NParams
    /\ popts[1].b # popts[2].b

\* C9: when the fit of a row fails, predict_future stops there: the rows
\* after it are not fitted, nothing is plotted and nothing is returned.
C9_FitFailureAborts ==
    (row_i >= 1 /\ status \in {"RuntimeError", "TypeError", "ValueError"}) =>
        /\ pc = "raised"
        /\ ~plotted /\ ~returned
        /\ Len(popts) = row_i - 1

\* the fit of a row failed and a later row of the slice is left
C9_Witness ==
    /\ status \in {"RuntimeError", "ValueError"}
    /\ pc = "raised"
    /\ row_i >= 1 /\ row_i < Len(data.index)

====
